---- MODULE Spec2Model ----
(***************************************************************************)
(* Model of the multi-query RAG pipeline of FragmentsToThought:            *)
(* AdvancedRAGSystem (src/advanced_rag.py), RAGSystem (src/rag_system.py), *)
(* generate_answer of src/groqchat.py, the FastAPI application of          *)
(* src/server.py and the embedding functions of the three chat modules.    *)
(* Python strings are TLA+ strings; a character is a                       *)
(* string of length one.  Scores are the floats 10.0, 5.0, 2.0, 3.0 and    *)
(* their sums, all whole numbers, and are kept as integers.                *)
(***************************************************************************)
EXTENDS Integers, Sequences, FiniteSets, TLC

VARIABLES
    mode,            \* which entry point this behaviour exercises
    pc,              \* position inside the entry point
    query,           \* the question / query argument
    variations,      \* hybrid_search: query_variations
    vidx,            \* hybrid_search: number of variations already iterated
    all_results,     \* hybrid_search: all_results
    unique_results,  \* hybrid_search: unique_results (the list rerank sorts in place)
    search_results,  \* ask_question: search_results = reranked_results[:k]
    context,         \* ask_question: context
    contexts,        \* RAGSystem.ask: contexts
    answer,          \* value returned to the caller
    raised,          \* TRUE when the entry point ended by an exception
    groq_calls,      \* number of chat.completions.create invocations
    fn_arg,          \* direct call of one method: its argument
    fn_rets,         \* direct call of one method: values returned so far
    trace,           \* the methods and collaborators the request has called, in order
    faults,          \* the texts of the exceptions the collaborators raised, in order
    rag_instance,    \* server.py: the global _rag_instance
    rag_inits,       \* server.py: number of RAGSystem() constructions started
    responses,       \* server.py: the responses sent so far
    printed          \* embedding functions: the lines they print, in order

\* the state of the HTTP server process
server_state == <<rag_instance, rag_inits, responses>>

vars == <<mode, pc, query, variations, vidx, all_results, unique_results,
          search_results, context, contexts, answer, raised, groq_calls, fn_arg, fn_rets,
          trace, faults, server_state, printed>>

(***************************************************************************)
(* Bounds of the model.                                                    *)
(***************************************************************************)
MaxHits == 2       \* hits one index query returns (the code asks for k)
MaxLen == 3        \* length of the candidate lists given to a direct call
MaxScore == 3      \* largest score of a candidate given to a direct call
MaxBudget == 6     \* largest max_length given to a direct generate_context call
MaxCalls == 2      \* times a direct call is repeated on its own return value
MaxRequests == 3   \* requests the HTTP server handles in one behaviour

(***************************************************************************)
(* Python str operations.                                                  *)
(***************************************************************************)
Ch(s, i) == SubSeq(s, i, i)

Min(a, b) == IF a <= b THEN a ELSE b

UpperChars == "ABCDEFGHIJKLMNOPQRSTUVWXYZ"
LowerChars == "abcdefghijklmnopqrstuvwxyz"
DigitChars == "0123456789"

CharsOf(s) == {Ch(s, i) : i \in 1..Len(s)}

\* str.isspace for one character (the ASCII white space)
IsSpace(c) == c \in {" ", "\t", "\n", "\r"}

\* one character matched by the regex class \w
IsWordChar(c) == c \in CharsOf(UpperChars) \cup CharsOf(LowerChars) \cup CharsOf(DigitChars) \cup {"_"}

LowerChar(c) ==
    IF c \in CharsOf(UpperChars)
    THEN Ch(LowerChars, CHOOSE i \in 1..Len(UpperChars) : Ch(UpperChars, i) = c)
    ELSE c

\* str.lower
RECURSIVE Lower(_)
Lower(s) ==
    IF Len(s) = 0 THEN ""
    ELSE IF Len(s) = 1 THEN LowerChar(s)
    ELSE LET h == Len(s) \div 2
         IN Lower(SubSeq(s, 1, h)) \o Lower(SubSeq(s, h + 1, Len(s)))

\* str.strip
Strip(s) ==
    LET keep == {i \in 1..Len(s) : ~IsSpace(Ch(s, i))}
    IN IF keep = {} THEN ""
       ELSE LET lo == CHOOSE i \in keep : \A j \in keep : i <= j
                hi == CHOOSE i \in keep : \A j \in keep : j <= i
            IN SubSeq(s, lo, hi)

\* needle in hay
Contains(hay, needle) ==
    \E i \in 0..(Len(hay) - Len(needle)) : SubSeq(hay, i + 1, i + Len(needle)) = needle

\* str.replace(old, new), old not empty: every occurrence, left to right
RECURSIVE Replace(_, _, _)
Replace(s, old, new) ==
    IF Len(s) < Len(old) THEN s
    ELSE IF SubSeq(s, 1, Len(old)) = old
         THEN new \o Replace(SubSeq(s, Len(old) + 1, Len(s)), old, new)
         ELSE Ch(s, 1) \o Replace(SubSeq(s, 2, Len(s)), old, new)

\* str.split(): the maximal runs of characters that are not white space
Split(s) ==
    LET n == Len(s)
        starts == {i \in 1..n : ~IsSpace(Ch(s, i)) /\ (i = 1 \/ IsSpace(Ch(s, i - 1)))}
        ends == {j \in 1..n : ~IsSpace(Ch(s, j)) /\ (j = n \/ IsSpace(Ch(s, j + 1)))}
        EndOf(i) == CHOOSE j \in ends : j >= i /\ \A e \in ends : e >= i => j <= e
        Nth(m) == CHOOSE i \in starts : Cardinality({x \in starts : x <= i}) = m
    IN [m \in 1..Cardinality(starts) |-> SubSeq(s, Nth(m), EndOf(Nth(m)))]

\* sep.join(parts)
RECURSIVE Join(_, _)
Join(parts, sep) ==
    IF Len(parts) = 0 THEN ""
    ELSE IF Len(parts) = 1 THEN parts[1]
    ELSE parts[1] \o sep \o Join(Tail(parts), sep)

\* re.sub(r'[^\w\s]', ' ', s)
RECURSIVE SubPunctuation(_)
SubPunctuation(s) ==
    IF Len(s) = 0 THEN ""
    ELSE (IF IsWordChar(Ch(s, 1)) \/ IsSpace(Ch(s, 1)) THEN Ch(s, 1) ELSE " ")
         \o SubPunctuation(SubSeq(s, 2, Len(s)))

Range(f) == {f[i] : i \in DOMAIN f}

\* the concatenation of a sequence of sequences
RECURSIVE Flatten(_)
Flatten(ss) == IF Len(ss) = 0 THEN <<>> ELSE ss[1] \o Flatten(Tail(ss))

(***************************************************************************)
(* AdvancedRAGSystem.preprocess_query                                      *)
(***************************************************************************)
name_keys == <<"harsha", "jakku", "harshavardhan">>

name_variations ==
    [harsha |-> <<"jakku harshavardhan", "harshavardhan", "jakku">>,
     jakku |-> <<"jakku harshavardhan", "harsha", "harshavardhan">>,
     harshavardhan |-> <<"jakku harshavardhan", "harsha", "jakku">>]

education_keywords == <<"education", "degree", "university", "college", "cgpa", "btech", "cse">>
project_keywords == <<"project", "work", "developed", "built", "created", "github">>
skill_keywords == <<"skill", "technology", "programming", "language", "framework">>

MaxVariations == 5

\* lines 66-70: lower, strip, punctuation to spaces, white space collapsed
NormalizeQuery(q) == Join(Split(SubPunctuation(Strip(Lower(q)))), " ")

\* lines 76-79: what one key of name_variations adds
NameExpansion(q, key) ==
    IF Contains(q, key)
    THEN [i \in 1..Len(name_variations[key]) |->
             name_variations[key][i] \o " " \o Strip(Replace(q, key, ""))]
         \o name_variations[key]
    ELSE <<>>

\* lines 82-89: what one keyword list adds
TopicExpansion(q, keywords, extra) ==
    IF \E i \in 1..Len(keywords) : Contains(q, keywords[i]) THEN extra ELSE <<>>

\* lines 73-89: the list variations before line 92
VariationPool(q) ==
    <<q>>
    \o Flatten([i \in 1..Len(name_keys) |-> NameExpansion(q, name_keys[i])])
    \o TopicExpansion(q, education_keywords,
                      <<"jakku harshavardhan education", "harsha education background">>)
    \o TopicExpansion(q, project_keywords,
                      <<"jakku harshavardhan projects", "harsha work experience">>)
    \o TopicExpansion(q, skill_keywords,
                      <<"jakku harshavardhan skills", "harsha technical skills">>)

\* line 92: the set of stripped, non-empty variations
VariationSet(q) == {Strip(v) : v \in Range(VariationPool(q))} \ {""}

\* list(set(...)): a set of str enumerates in an order fixed by the string
\* hashes, which are salted per process; every order is an outcome.
\* The orders of S cut to their first n elements.
ListOfSetPrefixes(S, n) ==
    LET m == Min(n, Cardinality(S))
    IN {s \in [1..m -> S] : \A i, j \in 1..m : i # j => s[i] # s[j]}

\* lines 64-94: the values preprocess_query may return
PreprocessQuery(q) == ListOfSetPrefixes(VariationSet(NormalizeQuery(q)), MaxVariations)

(***************************************************************************)
(* The collection held by the vector index                                 *)
(***************************************************************************)
DefaultMaxLength == 2000

RECURSIVE Repeat(_, _)
Repeat(s, n) ==
    IF n = 0 THEN ""
    ELSE IF n = 1 THEN s
    ELSE Repeat(s, n \div 2) \o Repeat(s, n - (n \div 2))

\* a chunk longer than the context budget and the conciseness threshold
LongContent == "Jakku Harshavardhan " \o Repeat("x", DefaultMaxLength)

\* The payloads of the points of the collection: a chunk with metadata, a
\* chunk stored without metadata, a long chunk, and a point without content.
Points ==
    << [content |-> "Harsha studies CSE", metadata |-> [source |-> "about.md"]],
       [content |-> "Ravi built a chat project"],
       [content |-> LongContent, metadata |-> [source |-> "cv.md"]],
       [metadata |-> [source |-> "empty.md"]] >>

\* dict.get(key, default)
Get(dict, key, default) == IF key \in DOMAIN dict THEN dict[key] ELSE default

\* the empty dict {}
EmptyDict == [key \in {} |-> ""]

\* the contents of candidates given to a direct call of one method
FnContents == {"Harsha", "db"}

\* every content a candidate of the model can carry
KnownContents == {Get(Points[p], "content", "") : p \in DOMAIN Points} \cup FnContents

(***************************************************************************)
(* SearchResult and the methods that work on lists of it                   *)
(***************************************************************************)
\* lines 28-33: the dataclass
SearchResult(content, score, metadata, source) ==
    [content |-> content, score |-> score, metadata |-> metadata, source |-> source]

ExactMatchBonus == 10
NamePatternBonus == 5
WordMatchWeight == 2
ConciseBonus == 2
ConciseLength == 500
NameBoost == 3

name_patterns == <<"jakku harshavardhan", "harsha", "harshavardhan">>
boost_names == <<"jakku harshavardhan", "harsha">>

\* a variant of lines 186-188 that counts a repeated query word every time
\* it occurs in the query
CalculateRelevanceScoreRepeats(q, content) ==
    LET query_lower == Lower(q)
        content_lower == Lower(content)
        exact == IF Contains(content_lower, query_lower) THEN ExactMatchBonus ELSE 0
        names == Cardinality({i \in 1..Len(name_patterns) :
                                 /\ Contains(query_lower, name_patterns[i])
                                 /\ Contains(content_lower, name_patterns[i])})
        query_words == Split(query_lower)
        content_words == Range(Split(content_lower))
        word_matches == Cardinality({i \in DOMAIN query_words : query_words[i] \in content_words})
        concise == IF Len(content) < ConciseLength THEN ConciseBonus ELSE 0
    IN exact + names * NamePatternBonus + word_matches * WordMatchWeight + concise

\* lines 168-195
CalculateRelevanceScore(q, content) ==
    LET query_lower == Lower(q)
        content_lower == Lower(content)
        exact == IF Contains(content_lower, query_lower) THEN ExactMatchBonus ELSE 0
        names == Cardinality({i \in 1..Len(name_patterns) :
                                 /\ Contains(query_lower, name_patterns[i])
                                 /\ Contains(content_lower, name_patterns[i])})
        query_words == Range(Split(query_lower))
        content_words == Range(Split(content_lower))
        word_matches == Cardinality(query_words \cap content_words)
        concise == IF Len(content) < ConciseLength THEN ConciseBonus ELSE 0
    IN exact + names * NamePatternBonus + word_matches * WordMatchWeight + concise

\* line 204: hashlib.md5(content.encode()).hexdigest().  The digest is a
\* function of the content alone; MD5 is taken to be collision free on the
\* contents of the model.
ContentSignature(result) == <<"md5", result.content>>

\* lines 199-209: the loop, from element i on
RECURSIVE DeduplicateFrom(_, _, _, _)
DeduplicateFrom(results, i, seen_content, unique) ==
    IF i > Len(results) THEN unique
    ELSE IF ContentSignature(results[i]) \notin seen_content
         THEN DeduplicateFrom(results, i + 1,
                              seen_content \cup {ContentSignature(results[i])},
                              Append(unique, results[i]))
         ELSE DeduplicateFrom(results, i + 1, seen_content, unique)

\* a variant that drops a repeated element from the list it is iterating,
\* so that the element after a dropped one is passed over unexamined
RECURSIVE DeduplicateFromSkipping(_, _, _, _)
DeduplicateFromSkipping(results, i, seen_content, unique) ==
    IF i > Len(results) THEN unique
    ELSE IF ContentSignature(results[i]) \notin seen_content
         THEN DeduplicateFromSkipping(results, i + 1,
                                      seen_content \cup {ContentSignature(results[i])},
                                      Append(unique, results[i]))
         ELSE IF i + 1 > Len(results) THEN unique
         ELSE DeduplicateFromSkipping(results, i + 2, seen_content,
                                      Append(unique, results[i + 1]))

DeduplicateResultsSkipping(results) == DeduplicateFromSkipping(results, 1, {}, <<>>)

\* a variant that keeps the last result of each content instead of the first
DeduplicateResultsKeepLast(results) ==
    LET last == {i \in 1..Len(results) :
                    \A j \in (i + 1)..Len(results) :
                        ContentSignature(results[j]) # ContentSignature(results[i])}
        Nth(m) == CHOOSE i \in last : Cardinality({x \in last : x <= i}) = m
    IN [m \in 1..Cardinality(last) |-> results[Nth(m)]]

\* a variant whose signature is taken of the whole result, score included
RECURSIVE DeduplicateWholeFrom(_, _, _, _)
DeduplicateWholeFrom(results, i, seen, unique) ==
    IF i > Len(results) THEN unique
    ELSE IF results[i] \notin seen
         THEN DeduplicateWholeFrom(results, i + 1, seen \cup {results[i]},
                                   Append(unique, results[i]))
         ELSE DeduplicateWholeFrom(results, i + 1, seen, unique)

DeduplicateResultsWhole(results) == DeduplicateWholeFrom(results, 1, {}, <<>>)

\* lines 197-209
DeduplicateResults(results) == DeduplicateFrom(results, 1, {}, <<>>)

\* list.sort(key=lambda x: x.score, reverse=True): stable, so results of equal
\* score keep their order
RECURSIVE InsertByScore(_, _)
InsertByScore(sorted, x) ==
    IF Len(sorted) = 0 THEN <<x>>
    ELSE IF sorted[Len(sorted)].score >= x.score THEN Append(sorted, x)
    ELSE Append(InsertByScore(SubSeq(sorted, 1, Len(sorted) - 1), x), sorted[Len(sorted)])

RECURSIVE SortByScoreDesc(_)
SortByScoreDesc(results) ==
    IF Len(results) = 0 THEN <<>>
    ELSE InsertByScore(SortByScoreDesc(SubSeq(results, 1, Len(results) - 1)),
                       results[Len(results)])

\* line 219
MentionsName(content) ==
    \E i \in 1..Len(boost_names) : Contains(Lower(content), boost_names[i])

\* MentionsName of every content of the model, computed once
NameMentioned == [content \in KnownContents |-> MentionsName(content)]

\* a variant of lines 218-220 that adds the boost for every name found
BoostNamesPerName(results) ==
    [i \in 1..Len(results) |->
        [results[i] EXCEPT !.score =
            @ + NameBoost * Cardinality({n \in 1..Len(boost_names) :
                                            Contains(Lower(results[i].content), boost_names[n])})]]

\* lines 218-220
BoostNames(results) ==
    [i \in 1..Len(results) |->
        IF NameMentioned[results[i].content]
        THEN [results[i] EXCEPT !.score = @ + NameBoost]
        ELSE results[i]]

\* a variant without the second sort of line 223
RerankResultsNoResort(q, results) == BoostNames(SortByScoreDesc(results))

\* lines 211-225
RerankResults(q, results) == SortByScoreDesc(BoostNames(SortByScoreDesc(results)))

\* str(n) for n >= 0
RECURSIVE IntToStr(_)
IntToStr(n) ==
    IF n < 10 THEN Ch(DigitChars, n + 1)
    ELSE IntToStr(n \div 10) \o Ch(DigitChars, (n % 10) + 1)

\* f"{score:.1f}" of a whole, non-negative score
FormatScore(score) == IntToStr(score) \o ".0"

\* line 237
ContextPart(result) == "[Score: " \o FormatScore(result.score) \o "] " \o result.content

\* the loop with `continue` in place of `break`: a result that does not fit
\* is passed over and the results after it are still tried
RECURSIVE ContextPartsSkipping(_, _, _, _, _)
ContextPartsSkipping(results, i, max_length, current_length, context_parts) ==
    IF i > Len(results) THEN context_parts
    ELSE IF current_length + Len(results[i].content) > max_length
         THEN ContextPartsSkipping(results, i + 1, max_length, current_length,
                                   context_parts)
    ELSE ContextPartsSkipping(results, i + 1, max_length,
                              current_length + Len(results[i].content),
                              Append(context_parts, ContextPart(results[i])))

\* lines 232-238: the loop, from element i on
RECURSIVE ContextPartsFrom(_, _, _, _, _)
ContextPartsFrom(results, i, max_length, current_length, context_parts) ==
    IF i > Len(results) THEN context_parts
    ELSE IF current_length + Len(results[i].content) > max_length THEN context_parts
    ELSE ContextPartsFrom(results, i + 1, max_length,
                          current_length + Len(results[i].content),
                          Append(context_parts, ContextPart(results[i])))

\* lines 227-240
GenerateContext(results, max_length) ==
    Join(ContextPartsFrom(results, 1, max_length, 0, <<>>), "\n\n")

(***************************************************************************)
(* The collaborators: the vector index and the generation provider         *)
(***************************************************************************)
\* query_points(..., limit=k).points: at most k points, each at most once, in
\* the order of the index
HitLists(k) ==
    UNION {{h \in [1..n -> DOMAIN Points] : \A i, j \in 1..n : i # j => h[i] # h[j]} :
              n \in 0..Min(k, MaxHits)}

\* what chat.completions.create(...).choices[0].message.content may be
GroqOutputs == {"Harsha studies CSE.", " I don't know. \n"}

AskK == 8
RagK == 5

InsufficientAnswer == "I don't have sufficient information about this topic in the provided context."
RagInsufficientAnswer == "I don't have sufficient information in my knowledge base."
RagPromptAnswer == "Please enter a question so I can help you."
\* line 280: the string returned for the exception whose text is e
GenerationError(e) == "Error generating response: " \o e

\* the questions put to ask_question and to RAGSystem.ask
AskQueries == {"", "  ", "?!", "Hello", "What degree?", "who is Ravi"}
RagQueries == {"", "  ", "hi", "Who is Harsha?"}

\* every variation preprocess_query can return for a question of AskQueries
AskVariations == UNION {VariationSet(NormalizeQuery(q)) : q \in AskQueries}

(***************************************************************************)
(* AdvancedRAGSystem.ask_question                                          *)
(***************************************************************************)
\* lines 146-155: the result built from one hit of a variation, <<>> when
\* the hit has no content
ResultOfHit(variation, payload) ==
    LET content == Get(payload, "content", "")
        metadata == Get(payload, "metadata", EmptyDict)
    IN IF content # ""
       THEN <<SearchResult(content,
                           CalculateRelevanceScore(variation, content),
                           metadata,
                           Get(metadata, "source", "unknown"))>>
       ELSE <<>>

\* ResultOfHit for every variation a request of the model can produce and
\* every point, computed once
HitResults ==
    [variation \in AskVariations |-> [p \in DOMAIN Points |-> ResultOfHit(variation, Points[p])]]

\* lines 145-156: the results one variation's hits add to all_results
RECURSIVE ResultsOfHits(_, _)
ResultsOfHits(variation, hits) ==
    IF Len(hits) = 0 THEN <<>>
    ELSE HitResults[variation][hits[1]] \o ResultsOfHits(variation, Tail(hits))

\* line 166
Truncate(results, k) == SubSeq(results, 1, Min(k, Len(results)))

\* what the exception of a failed embedding or index query says
IndexErrors == {"index timeout"}

\* what the exception of a failed chat.completions.create says
GroqErrors == {"provider failure", "rate limit"}

\* line 149, once for every result appended: n calls of the scorer
ScoreCalls(n) == [i \in 1..n |-> "_calculate_relevance_score"]

\* lines 287, 132-133
HybridSearchExpand ==
    /\ mode = "ask_question" /\ pc = "ask"
    /\ variations' \in PreprocessQuery(query)
    /\ vidx' = 0
    /\ all_results' = <<>>
    /\ trace' = Append(trace, "preprocess_query")
    /\ pc' = "retrieve"
    /\ UNCHANGED <<mode, query, unique_results, search_results, context, contexts,
                   answer, raised, groq_calls, fn_arg, fn_rets, faults, server_state,
                   printed>>

\* lines 135-156: one iteration whose embedding and index query succeed
HybridSearchQuery ==
    /\ mode = "ask_question" /\ pc = "retrieve"
    /\ vidx < Len(variations)
    /\ \E hits \in HitLists(AskK) :
          LET found == ResultsOfHits(variations[vidx + 1], hits)
          IN /\ all_results' = all_results \o found
             /\ trace' = Append(trace, "query_points") \o ScoreCalls(Len(found))
    /\ vidx' = vidx + 1
    /\ UNCHANGED <<mode, pc, query, variations, unique_results, search_results, context,
                   contexts, answer, raised, groq_calls, fn_arg, fn_rets, faults,
                   server_state, printed>>

\* a variant of lines 158-160 without the handler: the exception of the
\* embedding or index query leaves hybrid_search and ask_question
HybridSearchQueryFailsUncaught ==
    /\ mode = "ask_question" /\ pc = "retrieve"
    /\ vidx < Len(variations)
    /\ trace' = Append(trace, "query_points")
    /\ \E e \in IndexErrors : faults' = Append(faults, e)
    /\ raised' = TRUE
    /\ pc' = "done"
    /\ UNCHANGED <<mode, query, variations, vidx, all_results, unique_results,
                   search_results, context, contexts, answer, groq_calls, fn_arg, fn_rets,
                   server_state, printed>>

\* a variant of lines 158-160 whose handler leaves the loop: the variations
\* after the failed one are not queried
HybridSearchQueryFailsAborting ==
    /\ mode = "ask_question" /\ pc = "retrieve"
    /\ vidx < Len(variations)
    /\ vidx' = Len(variations)
    /\ trace' = Append(trace, "query_points")
    /\ \E e \in IndexErrors : faults' = Append(faults, e)
    /\ UNCHANGED <<mode, pc, query, variations, all_results, unique_results, search_results,
                   context, contexts, answer, raised, groq_calls, fn_arg, fn_rets,
                   server_state, printed>>

\* lines 136-144, 158-160: one iteration whose embedding or index query
\* raises; the handler prints the exception and the loop goes on
HybridSearchQueryFails ==
    /\ mode = "ask_question" /\ pc = "retrieve"
    /\ vidx < Len(variations)
    /\ vidx' = vidx + 1
    /\ trace' = Append(trace, "query_points")
    /\ \E e \in IndexErrors : faults' = Append(faults, e)
    /\ UNCHANGED <<mode, pc, query, variations, all_results, unique_results, search_results,
                   context, contexts, answer, raised, groq_calls, fn_arg, fn_rets,
                   server_state, printed>>

\* line 163
HybridSearchDeduplicate ==
    /\ mode = "ask_question" /\ pc = "retrieve"
    /\ vidx = Len(variations)
    /\ unique_results' = DeduplicateResults(all_results)
    /\ trace' = Append(trace, "_deduplicate_results")
    /\ pc' = "rerank"
    /\ UNCHANGED <<mode, query, variations, vidx, all_results, search_results, context,
                   contexts, answer, raised, groq_calls, fn_arg, fn_rets, faults,
                   server_state, printed>>

\* lines 164-166: rerank sorts and boosts the list unique_results in place
HybridSearchRerank ==
    /\ mode = "ask_question" /\ pc = "rerank"
    /\ unique_results' = RerankResults(query, unique_results)
    /\ search_results' = Truncate(unique_results', AskK)
    /\ trace' = Append(trace, "_rerank_results")
    /\ pc' = "searched"
    /\ UNCHANGED <<mode, query, variations, vidx, all_results, context, contexts,
                   answer, raised, groq_calls, fn_arg, fn_rets, faults, server_state,
                   printed>>

\* a variant of lines 289-290 that answers without looking at search_results
AskNoResultsUnguarded ==
    /\ mode = "ask_question" /\ pc = "searched"
    /\ search_results = <<>>
    /\ context' = GenerateContext(search_results, DefaultMaxLength)
    /\ trace' = Append(trace, "generate_context")
    /\ pc' = "generate"
    /\ UNCHANGED <<mode, query, variations, vidx, all_results, unique_results,
                   search_results, contexts, answer, raised, groq_calls, fn_arg, fn_rets,
                   faults, server_state, printed>>

\* lines 289-290
AskNoResults ==
    /\ mode = "ask_question" /\ pc = "searched"
    /\ search_results = <<>>
    /\ answer' = InsufficientAnswer
    /\ pc' = "done"
    /\ UNCHANGED <<mode, query, variations, vidx, all_results, unique_results,
                   search_results, context, contexts, raised, groq_calls, fn_arg, fn_rets,
                   trace, faults, server_state, printed>>

\* a variant of lines 295-298 that answers with the insufficient-information
\* string, without asking the provider, when the context comes out empty
AskGenerateContextSkipsEmpty ==
    /\ mode = "ask_question" /\ pc = "searched"
    /\ search_results # <<>>
    /\ context' = GenerateContext(search_results, DefaultMaxLength)
    /\ trace' = Append(trace, "generate_context")
    /\ IF context' = ""
       THEN answer' = InsufficientAnswer /\ pc' = "done"
       ELSE answer' = answer /\ pc' = "generate"
    /\ UNCHANGED <<mode, query, variations, vidx, all_results, unique_results,
                   search_results, contexts, raised, groq_calls, fn_arg, fn_rets,
                   faults, server_state, printed>>

\* lines 289, 295
AskGenerateContext ==
    /\ mode = "ask_question" /\ pc = "searched"
    /\ search_results # <<>>
    /\ context' = GenerateContext(search_results, DefaultMaxLength)
    /\ trace' = Append(trace, "generate_context")
    /\ pc' = "generate"
    /\ UNCHANGED <<mode, query, variations, vidx, all_results, unique_results,
                   search_results, contexts, answer, raised, groq_calls, fn_arg, fn_rets,
                   faults, server_state, printed>>

\* lines 298, 267-278: the provider answers
AskGenerateAnswer ==
    /\ mode = "ask_question" /\ pc = "generate"
    /\ groq_calls' = groq_calls + 1
    /\ \E text \in GroqOutputs : answer' = Strip(text)
    /\ trace' = Append(trace, "generate_answer")
    /\ pc' = "done"
    /\ UNCHANGED <<mode, query, variations, vidx, all_results, unique_results,
                   search_results, context, contexts, raised, fn_arg, fn_rets,
                   faults, server_state, printed>>

\* a variant of lines 279-280 that hides the exception behind the
\* insufficient-information string
AskGenerateAnswerFailsSilently ==
    /\ mode = "ask_question" /\ pc = "generate"
    /\ groq_calls' = groq_calls + 1
    /\ \E e \in GroqErrors : faults' = Append(faults, e)
    /\ answer' = InsufficientAnswer
    /\ trace' = Append(trace, "generate_answer")
    /\ pc' = "done"
    /\ UNCHANGED <<mode, query, variations, vidx, all_results, unique_results,
                   search_results, context, contexts, raised, fn_arg, fn_rets,
                   server_state, printed>>

\* lines 298, 267-280: the provider call raises and the handler returns the
\* formatted exception
AskGenerateAnswerFails ==
    /\ mode = "ask_question" /\ pc = "generate"
    /\ groq_calls' = groq_calls + 1
    /\ \E e \in GroqErrors :
          /\ faults' = Append(faults, e)
          /\ answer' = GenerationError(e)
    /\ trace' = Append(trace, "generate_answer")
    /\ pc' = "done"
    /\ UNCHANGED <<mode, query, variations, vidx, all_results, unique_results,
                   search_results, context, contexts, raised, fn_arg, fn_rets,
                   server_state, printed>>

(***************************************************************************)
(* RAGSystem.ask                                                           *)
(***************************************************************************)
\* rag_system.py lines 88-95
RECURSIVE ContextsOfHits(_)
ContextsOfHits(hits) ==
    IF Len(hits) = 0 THEN <<>>
    ELSE LET content == Get(Points[hits[1]], "content", "")
         IN (IF content # "" THEN <<content>> ELSE <<>>) \o ContextsOfHits(Tail(hits))

\* rag_system.py lines 144-146: an empty question
RagAskEmpty ==
    /\ mode = "rag_ask" /\ pc = "ask"
    /\ Strip(query) = ""
    /\ query' = Strip(query)
    /\ answer' = RagPromptAnswer
    /\ pc' = "done"
    /\ UNCHANGED <<mode, variations, vidx, all_results, unique_results, search_results,
                   context, contexts, raised, groq_calls, fn_arg, fn_rets,
                   trace, faults, server_state, printed>>

\* rag_system.py lines 144-150, 76-95: retrieve returns
RagRetrieve ==
    /\ mode = "rag_ask" /\ pc = "ask"
    /\ Strip(query) # ""
    /\ query' = Strip(query)
    /\ \E hits \in HitLists(RagK) : contexts' = ContextsOfHits(hits)
    /\ trace' = Append(trace, "retrieve")
    /\ pc' = "generate"
    /\ UNCHANGED <<mode, variations, vidx, all_results, unique_results, search_results,
                   context, answer, raised, groq_calls, fn_arg, fn_rets, faults,
                   server_state, printed>>

\* rag_system.py lines 144-150, 78-86: the embedder or the index raises
RagRetrieveRaises ==
    /\ mode = "rag_ask" /\ pc = "ask"
    /\ Strip(query) # ""
    /\ query' = Strip(query)
    /\ trace' = Append(trace, "retrieve")
    /\ \E e \in IndexErrors : faults' = Append(faults, e)
    /\ raised' = TRUE
    /\ pc' = "done"
    /\ UNCHANGED <<mode, variations, vidx, all_results, unique_results, search_results,
                   context, contexts, answer, groq_calls, fn_arg, fn_rets, server_state,
                   printed>>

\* rag_system.py lines 102-103
RagGenerateNoContexts ==
    /\ mode = "rag_ask" /\ pc = "generate"
    /\ contexts = <<>>
    /\ answer' = RagInsufficientAnswer
    /\ trace' = Append(trace, "generate")
    /\ pc' = "done"
    /\ UNCHANGED <<mode, query, variations, vidx, all_results, unique_results,
                   search_results, context, contexts, raised, groq_calls, fn_arg, fn_rets,
                   faults, server_state, printed>>

\* rag_system.py lines 105-136: the provider answers
RagGenerate ==
    /\ mode = "rag_ask" /\ pc = "generate"
    /\ contexts # <<>>
    /\ groq_calls' = groq_calls + 1
    /\ \E text \in GroqOutputs : answer' = Strip(text)
    /\ trace' = Append(trace, "generate")
    /\ pc' = "done"
    /\ UNCHANGED <<mode, query, variations, vidx, all_results, unique_results,
                   search_results, context, contexts, raised, fn_arg, fn_rets,
                   faults, server_state, printed>>

\* rag_system.py lines 127-134: the provider call raises, nothing catches it
RagGenerateRaises ==
    /\ mode = "rag_ask" /\ pc = "generate"
    /\ contexts # <<>>
    /\ groq_calls' = groq_calls + 1
    /\ trace' = Append(trace, "generate")
    /\ \E e \in GroqErrors : faults' = Append(faults, e)
    /\ raised' = TRUE
    /\ pc' = "done"
    /\ UNCHANGED <<mode, query, variations, vidx, all_results, unique_results,
                   search_results, context, contexts, answer, fn_arg, fn_rets,
                   server_state, printed>>

(***************************************************************************)
(* The requests                                                            *)
(***************************************************************************)
NoArg ==
    [query |-> "", content |-> "", results |-> <<>>, max_length |-> 0,
     hit |-> [payload |-> EmptyDict, score |-> 0], k |-> 0, index |-> EmptyDict]

Idle ==
    /\ variations = <<>> /\ vidx = 0
    /\ all_results = <<>> /\ unique_results = <<>> /\ search_results = <<>>
    /\ context = "" /\ contexts = <<>>
    /\ answer = "" /\ raised = FALSE /\ groq_calls = 0
    /\ trace = <<>> /\ faults = <<>>
    /\ rag_instance = "None" /\ rag_inits = 0 /\ responses = <<>>
    /\ printed = <<>>

Init ==
    /\ mode \in {"ask_question", "rag_ask"}
    /\ pc = "ask"
    /\ query \in (IF mode = "ask_question" THEN AskQueries ELSE RagQueries)
    /\ Idle
    /\ fn_arg = NoArg /\ fn_rets = <<>>

Next ==
    \/ HybridSearchExpand
    \/ HybridSearchQuery
    \/ HybridSearchQueryFails
    \/ HybridSearchDeduplicate
    \/ HybridSearchRerank
    \/ AskNoResults
    \/ AskGenerateContext
    \/ AskGenerateAnswer
    \/ AskGenerateAnswerFails
    \/ RagAskEmpty
    \/ RagRetrieve
    \/ RagRetrieveRaises
    \/ RagGenerateNoContexts
    \/ RagGenerate
    \/ RagGenerateRaises

Spec == Init /\ [][Next]_vars

(***************************************************************************)
(* Direct calls of one method of AdvancedRAGSystem                         *)
(***************************************************************************)
ExpandQueries ==
    {"", "  ", "?!", "Hello", "harsha", "Harshavardhan", "What degree?",
     "Who is Harsha?", "cse work skill"}

\* The candidate lists given to a direct call.  Each SearchResult is its own
\* object: the source field names the position it has in the list.
SourceTag(i) == "chunk" \o IntToStr(i)

FnLists ==
    UNION {{[i \in 1..n |-> SearchResult(cs[i][1], cs[i][2],
                                         [source |-> SourceTag(i)], SourceTag(i))] :
               cs \in [1..n -> FnContents \X (0..MaxScore)]} :
           n \in 0..MaxLen}

\* the argument of the next call: the given list, then the list last returned
FnInput == IF fn_rets = <<>> THEN fn_arg.results ELSE fn_rets[Len(fn_rets)]

InitExpand ==
    /\ mode = "preprocess_query" /\ pc = "call" /\ query = ""
    /\ Idle
    /\ fn_arg \in {[NoArg EXCEPT !.query = q] : q \in ExpandQueries}
    /\ fn_rets = <<>>

PreprocessQueryCall ==
    /\ mode = "preprocess_query" /\ fn_rets = <<>>
    /\ \E v \in PreprocessQuery(fn_arg.query) : fn_rets' = <<v>>
    /\ UNCHANGED <<mode, pc, query, variations, vidx, all_results, unique_results,
                   search_results, context, contexts, answer, raised, groq_calls, fn_arg,
                   trace, faults, server_state, printed>>

SpecExpand == InitExpand /\ [][PreprocessQueryCall]_vars

InitDeduplicate ==
    /\ mode = "deduplicate_results" /\ pc = "call" /\ query = ""
    /\ Idle
    /\ fn_arg \in {[NoArg EXCEPT !.results = r] : r \in FnLists}
    /\ fn_rets = <<>>

DeduplicateResultsCall ==
    /\ mode = "deduplicate_results" /\ Len(fn_rets) < MaxCalls
    /\ fn_rets' = Append(fn_rets, DeduplicateResults(FnInput))
    /\ UNCHANGED <<mode, pc, query, variations, vidx, all_results, unique_results,
                   search_results, context, contexts, answer, raised, groq_calls, fn_arg,
                   trace, faults, server_state, printed>>

SpecDeduplicate == InitDeduplicate /\ [][DeduplicateResultsCall]_vars

InitRerank ==
    /\ mode = "rerank_results" /\ pc = "call" /\ query = ""
    /\ Idle
    /\ fn_arg \in {[NoArg EXCEPT !.results = r, !.query = "Who is Harsha?"] : r \in FnLists}
    /\ fn_rets = <<>>

RerankResultsCall ==
    /\ mode = "rerank_results" /\ Len(fn_rets) < MaxCalls
    /\ fn_rets' = Append(fn_rets, RerankResults(fn_arg.query, FnInput))
    /\ UNCHANGED <<mode, pc, query, variations, vidx, all_results, unique_results,
                   search_results, context, contexts, answer, raised, groq_calls, fn_arg,
                   trace, faults, server_state, printed>>

SpecRerank == InitRerank /\ [][RerankResultsCall]_vars

InitContext ==
    /\ mode = "generate_context" /\ pc = "call" /\ query = ""
    /\ Idle
    /\ fn_arg \in {[NoArg EXCEPT !.results = r, !.max_length = m] :
                      r \in FnLists, m \in 0..MaxBudget}
    /\ fn_rets = <<>>

GenerateContextCall ==
    /\ mode = "generate_context" /\ fn_rets = <<>>
    /\ fn_rets' = <<GenerateContext(fn_arg.results, fn_arg.max_length)>>
    /\ UNCHANGED <<mode, pc, query, variations, vidx, all_results, unique_results,
                   search_results, context, contexts, answer, raised, groq_calls, fn_arg,
                   trace, faults, server_state, printed>>

SpecContext == InitContext /\ [][GenerateContextCall]_vars

\* the strings given to a direct call of the scorer
ScoreQueries ==
    {"", "x", "harsha", "Harsha", "harsha harsha", "Harsha harsha", "who is harsha",
     "jakku harshavardhan", "cse studies", "stud", "harsha  cse"}

ScoreContents ==
    {"", "Harsha studies CSE", "harsha harsha", "Jakku Harshavardhan",
     "studies\tCSE\nharsha", Repeat("x", ConciseLength - 1), Repeat("x", ConciseLength)}

InitScore ==
    /\ mode = "calculate_relevance_score" /\ pc = "call" /\ query = ""
    /\ Idle
    /\ fn_arg \in {[NoArg EXCEPT !.query = q, !.content = c] :
                      q \in ScoreQueries, c \in ScoreContents}
    /\ fn_rets = <<>>

CalculateRelevanceScoreCall ==
    /\ mode = "calculate_relevance_score" /\ fn_rets = <<>>
    /\ fn_rets' = <<CalculateRelevanceScore(fn_arg.query, fn_arg.content)>>
    /\ UNCHANGED <<mode, pc, query, variations, vidx, all_results, unique_results,
                   search_results, context, contexts, answer, raised, groq_calls, fn_arg,
                   trace, faults, server_state, printed>>

SpecScore == InitScore /\ [][CalculateRelevanceScoreCall]_vars

\* the similarity scores the index reports with a hit (ScoredPoint.score)
Similarities == {0, 1}

\* one ScoredPoint of query_points(...).points
ScoredPoints == {[payload |-> Points[p], score |-> sim] : p \in DOMAIN Points, sim \in Similarities}

\* the variations whose hits are built into candidates
BuildVariations == AskVariations \cup {"harsha", "jakku harshavardhan"}

InitBuild ==
    /\ mode = "build_candidate" /\ pc = "call" /\ query = ""
    /\ Idle
    /\ fn_arg \in {[NoArg EXCEPT !.query = v, !.hit = h] :
                      v \in BuildVariations, h \in ScoredPoints}
    /\ fn_rets = <<>>

\* lines 145-156 for one hit of one variation: what is appended to all_results
BuildCandidateCall ==
    /\ mode = "build_candidate" /\ fn_rets = <<>>
    /\ fn_rets' = <<ResultOfHit(fn_arg.query, fn_arg.hit.payload)>>
    /\ UNCHANGED <<mode, pc, query, variations, vidx, all_results, unique_results,
                   search_results, context, contexts, answer, raised, groq_calls, fn_arg,
                   trace, faults, server_state, printed>>

SpecBuild == InitBuild /\ [][BuildCandidateCall]_vars

\* hybrid_search called directly on an index whose answer to each variation
\* is fixed before the call: the points it holds for the variation, in its
\* order, or the exception its query raises
SearchQueries == {"Hello", "harsha"}

IndexResponses ==
    {[raises |-> FALSE, points |-> <<2, 1>>],
     [raises |-> FALSE, points |-> <<4, 1>>],
     [raises |-> TRUE, points |-> <<>>]}

InitSearch ==
    /\ mode = "hybrid_search" /\ pc = "call" /\ query = ""
    /\ Idle
    /\ \E q \in SearchQueries, k \in 1..MaxHits :
          \E index \in [VariationSet(NormalizeQuery(q)) -> IndexResponses] :
              fn_arg = [NoArg EXCEPT !.query = q, !.k = k, !.index = index]
    /\ fn_rets = <<>>

\* query_points(..., limit=k).points on that index
QueryPoints(variation, k) == Truncate(fn_arg.index[variation].points, k)

\* lines 145-156: the results the hits of one variation add to all_results
RECURSIVE CandidatesOfHits(_, _)
CandidatesOfHits(variation, hits) ==
    IF Len(hits) = 0 THEN <<>>
    ELSE ResultOfHit(variation, Points[hits[1]])
             \o CandidatesOfHits(variation, Tail(hits))

\* lines 132-133
SearchCallExpand ==
    /\ mode = "hybrid_search" /\ pc = "call"
    /\ variations' \in PreprocessQuery(fn_arg.query)
    /\ vidx' = 0
    /\ all_results' = <<>>
    /\ trace' = Append(trace, "preprocess_query")
    /\ pc' = "retrieve"
    /\ UNCHANGED <<mode, query, unique_results, search_results, context, contexts,
                   answer, raised, groq_calls, fn_arg, fn_rets, faults, server_state,
                   printed>>

\* a variant of line 156 that puts the results of a variation in front of
\* those collected so far
SearchCallQueryPrepends ==
    /\ mode = "hybrid_search" /\ pc = "retrieve"
    /\ vidx < Len(variations)
    /\ ~fn_arg.index[variations[vidx + 1]].raises
    /\ LET found == CandidatesOfHits(variations[vidx + 1],
                                     QueryPoints(variations[vidx + 1], fn_arg.k))
       IN /\ all_results' = found \o all_results
          /\ trace' = Append(trace, "query_points") \o ScoreCalls(Len(found))
    /\ vidx' = vidx + 1
    /\ UNCHANGED <<mode, pc, query, variations, unique_results, search_results, context,
                   contexts, answer, raised, groq_calls, fn_arg, fn_rets, faults,
                   server_state, printed>>

\* lines 135-156: one iteration whose index query succeeds
SearchCallQuery ==
    /\ mode = "hybrid_search" /\ pc = "retrieve"
    /\ vidx < Len(variations)
    /\ ~fn_arg.index[variations[vidx + 1]].raises
    /\ LET found == CandidatesOfHits(variations[vidx + 1],
                                     QueryPoints(variations[vidx + 1], fn_arg.k))
       IN /\ all_results' = all_results \o found
          /\ trace' = Append(trace, "query_points") \o ScoreCalls(Len(found))
    /\ vidx' = vidx + 1
    /\ UNCHANGED <<mode, pc, query, variations, unique_results, search_results, context,
                   contexts, answer, raised, groq_calls, fn_arg, fn_rets, faults,
                   server_state, printed>>

\* lines 135-143, 158-160: one iteration whose index query raises
SearchCallQueryFails ==
    /\ mode = "hybrid_search" /\ pc = "retrieve"
    /\ vidx < Len(variations)
    /\ fn_arg.index[variations[vidx + 1]].raises
    /\ trace' = Append(trace, "query_points")
    /\ \E e \in IndexErrors : faults' = Append(faults, e)
    /\ vidx' = vidx + 1
    /\ UNCHANGED <<mode, pc, query, variations, all_results, unique_results,
                   search_results, context, contexts, answer, raised, groq_calls, fn_arg,
                   fn_rets, server_state, printed>>

\* lines 163-166
SearchCallReturn ==
    /\ mode = "hybrid_search" /\ pc = "retrieve"
    /\ vidx = Len(variations)
    /\ unique_results' = RerankResults(fn_arg.query, DeduplicateResults(all_results))
    /\ search_results' = Truncate(unique_results', fn_arg.k)
    /\ fn_rets' = <<search_results'>>
    /\ trace' = trace \o <<"_deduplicate_results", "_rerank_results">>
    /\ pc' = "done"
    /\ UNCHANGED <<mode, query, variations, vidx, all_results, context, contexts,
                   answer, raised, groq_calls, fn_arg, faults, server_state, printed>>

NextSearch ==
    \/ SearchCallExpand
    \/ SearchCallQuery
    \/ SearchCallQueryFails
    \/ SearchCallReturn

SpecSearch == InitSearch /\ [][NextSearch]_vars

(***************************************************************************)
(* The embedding functions of advanced_rag.py, groqchat.py, qdrant_chat.py *)
(***************************************************************************)
\* the texts embedded
EmbedTexts ==
    {"", "hello", "what degree", "harsha", "jakku", "harshavardhan",
     "who is harsha", "jakku harshavardhan", "harsha skills", "cse work skill",
     "tell me about the projects of harsha", "a b c d e f", "education",
     "what are the skills and the work experience"}

\* the 384 numbers computed from hashlib.md5(text.encode()).digest(): a
\* function of the text alone
HashEmbedding(text) == [by |-> "md5", of |-> <<text>>]

\* response.json() of the inference API for the text
ProviderEmbedding(text) == [by |-> "all-MiniLM-L6-v2", of |-> <<text>>]

\* np.mean(embeddings, axis=0).tolist() of hash embeddings
MeanEmbedding(embeddings) ==
    [by |-> "md5", of |-> Flatten([i \in 1..Len(embeddings) |-> embeddings[i].of])]

\* what requests.post can raise
ProviderErrors == {"connection refused"}

EmbedFunctions ==
    {"advanced_rag.get_enhanced_embedding", "groqchat.get_embeddings_from_api",
     "qdrant_chat.get_embeddings_from_api"}

InitEmbed ==
    /\ mode \in EmbedFunctions /\ pc = "call" /\ query = ""
    /\ Idle
    /\ fn_arg \in {[NoArg EXCEPT !.query = text] : text \in EmbedTexts}
    /\ fn_rets = <<>>

EmbedFrame ==
    UNCHANGED <<mode, pc, query, variations, vidx, all_results, unique_results,
                search_results, context, contexts, answer, raised, groq_calls,
                fn_arg, trace, server_state>>

\* advanced_rag.py lines 105-111
ProcessedTexts(text) ==
    LET words == Split(text)
        n == Len(words)
    IN << Replace(text, "harsha", "jakku harshavardhan"),
          Replace(text, "jakku", "jakku harshavardhan"),
          Replace(text, "harshavardhan", "jakku harshavardhan"),
          Join(SubSeq(words, 1, Min(5, n)), " "),
          Join(SubSeq(words, IF n > 5 THEN n - 4 ELSE 1, n), " ") >>

\* advanced_rag.py lines 96-119: no provider is asked and nothing is printed
GetEnhancedEmbedding ==
    /\ mode = "advanced_rag.get_enhanced_embedding" /\ fn_rets = <<>>
    /\ LET text == fn_arg.query
           processed == SelectSeq(ProcessedTexts(text), LAMBDA t : t # text)
           embeddings == <<HashEmbedding(text)>>
                             \o [i \in 1..Len(processed) |-> HashEmbedding(processed[i])]
       IN fn_rets' = <<MeanEmbedding(embeddings)>>
    /\ UNCHANGED <<faults, printed>>
    /\ EmbedFrame

\* groqchat.py lines 27-37: the try block computes the hash embedding and
\* returns it; nothing in it asks a provider or prints
GroqChatGetEmbeddings ==
    /\ mode = "groqchat.get_embeddings_from_api" /\ fn_rets = <<>>
    /\ fn_rets' = <<HashEmbedding(fn_arg.query)>>
    /\ UNCHANGED <<faults, printed>>
    /\ EmbedFrame

\* qdrant_chat.py lines 39-49: the inference API answers 200
QdrantChatEmbedProvider ==
    /\ mode = "qdrant_chat.get_embeddings_from_api" /\ fn_rets = <<>>
    /\ fn_rets' = <<ProviderEmbedding(fn_arg.query)>>
    /\ UNCHANGED <<faults, printed>>
    /\ EmbedFrame

\* qdrant_chat.py lines 50-59: the inference API answers another status; the
\* line printed is given without its leading warning sign
QdrantChatEmbedFallback ==
    /\ mode = "qdrant_chat.get_embeddings_from_api" /\ fn_rets = <<>>
    /\ printed' = Append(printed, "Using fallback embedding method")
    /\ fn_rets' = <<HashEmbedding(fn_arg.query)>>
    /\ UNCHANGED faults
    /\ EmbedFrame

\* qdrant_chat.py lines 61-70: the request raises
QdrantChatEmbedRaises ==
    /\ mode = "qdrant_chat.get_embeddings_from_api" /\ fn_rets = <<>>
    /\ \E e \in ProviderErrors :
          /\ faults' = Append(faults, e)
          /\ printed' = Append(printed, "Error getting embeddings: " \o e)
    /\ fn_rets' = <<HashEmbedding(fn_arg.query)>>
    /\ EmbedFrame

NextEmbed ==
    \/ GetEnhancedEmbedding
    \/ GroqChatGetEmbeddings
    \/ QdrantChatEmbedProvider
    \/ QdrantChatEmbedFallback
    \/ QdrantChatEmbedRaises

SpecEmbed == InitEmbed /\ [][NextEmbed]_vars

(***************************************************************************)
(* groqchat.py: generate_answer                                            *)
(***************************************************************************)
ChatK == 3

ChatDontKnow == "I don't know based on the provided context."

\* groqchat.py line 94
ChatGroqError(e) == "[ERROR] Failed to generate response from Groq: " \o e

\* the payloads qdrant_client.search can return: those of the collection
\* and one whose content is the empty string
ChatPoints == Points \o << [content |-> "", metadata |-> [source |-> "blank.md"]] >>

\* qdrant_client.search(..., limit=k): at most k points, each at most once
ChatHitLists(k) ==
    UNION {{h \in [1..n -> DOMAIN ChatPoints] : \A i, j \in 1..n : i # j => h[i] # h[j]} :
              n \in 0..Min(k, MaxHits)}

ChatQueries == {"", "hi", "Who is Harsha?"}

\* groqchat.py lines 111-115
RECURSIVE ChatContextParts(_)
ChatContextParts(results) ==
    IF Len(results) = 0 THEN <<>>
    ELSE LET content == Get(results[1], "content", "")
         IN (IF content # "" THEN <<content>> ELSE <<>>) \o ChatContextParts(Tail(results))

\* groqchat.py lines 101-103, 51-62: search_qdrant returns the hits
ChatSearch ==
    /\ mode = "groqchat" /\ pc = "ask"
    /\ \E hits \in ChatHitLists(ChatK) :
          search_results' = [i \in DOMAIN hits |-> ChatPoints[hits[i]]]
    /\ trace' = Append(trace, "search_qdrant")
    /\ pc' = "searched"
    /\ UNCHANGED <<mode, query, variations, vidx, all_results, unique_results, context,
                   contexts, answer, raised, groq_calls, fn_arg, fn_rets, faults,
                   server_state, printed>>

\* groqchat.py lines 101-103, 64-66: the search raises inside search_qdrant,
\* which prints the exception and returns []
ChatSearchFails ==
    /\ mode = "groqchat" /\ pc = "ask"
    /\ search_results' = <<>>
    /\ trace' = Append(trace, "search_qdrant")
    /\ \E e \in IndexErrors : faults' = Append(faults, e)
    /\ pc' = "searched"
    /\ UNCHANGED <<mode, query, variations, vidx, all_results, unique_results, context,
                   contexts, answer, raised, groq_calls, fn_arg, fn_rets, server_state,
                   printed>>

\* groqchat.py lines 107-108
ChatNoResults ==
    /\ mode = "groqchat" /\ pc = "searched"
    /\ search_results = <<>>
    /\ answer' = ChatDontKnow
    /\ pc' = "done"
    /\ UNCHANGED <<mode, query, variations, vidx, all_results, unique_results,
                   search_results, context, contexts, raised, groq_calls, fn_arg, fn_rets,
                   trace, faults, server_state, printed>>

\* groqchat.py lines 111-118: no hit has content
ChatNoContext ==
    /\ mode = "groqchat" /\ pc = "searched"
    /\ search_results # <<>>
    /\ contexts' = ChatContextParts(search_results)
    /\ contexts' = <<>>
    /\ answer' = ChatDontKnow
    /\ pc' = "done"
    /\ UNCHANGED <<mode, query, variations, vidx, all_results, unique_results,
                   search_results, context, raised, groq_calls, fn_arg, fn_rets,
                   trace, faults, server_state, printed>>

\* groqchat.py lines 111-121: the context handed to get_answer_from_groq
ChatBuildContext ==
    /\ mode = "groqchat" /\ pc = "searched"
    /\ search_results # <<>>
    /\ contexts' = ChatContextParts(search_results)
    /\ contexts' # <<>>
    /\ context' = Strip(Join(contexts', "\n\n"))
    /\ pc' = "generate"
    /\ UNCHANGED <<mode, query, variations, vidx, all_results, unique_results,
                   search_results, answer, raised, groq_calls, fn_arg, fn_rets,
                   trace, faults, server_state, printed>>

\* a variant of groqchat.py lines 82-94 without the handler
ChatGroqFailsUncaught ==
    /\ mode = "groqchat" /\ pc = "generate"
    /\ groq_calls' = groq_calls + 1
    /\ \E e \in GroqErrors : faults' = Append(faults, e)
    /\ raised' = TRUE
    /\ trace' = Append(trace, "get_answer_from_groq")
    /\ pc' = "done"
    /\ UNCHANGED <<mode, query, variations, vidx, all_results, unique_results,
                   search_results, context, contexts, answer, fn_arg, fn_rets,
                   server_state, printed>>

\* groqchat.py lines 82-92: Groq answers
ChatGroqAnswers ==
    /\ mode = "groqchat" /\ pc = "generate"
    /\ groq_calls' = groq_calls + 1
    /\ \E text \in GroqOutputs : answer' = Strip(text)
    /\ trace' = Append(trace, "get_answer_from_groq")
    /\ pc' = "done"
    /\ UNCHANGED <<mode, query, variations, vidx, all_results, unique_results,
                   search_results, context, contexts, raised, fn_arg, fn_rets,
                   faults, server_state, printed>>

\* groqchat.py lines 82-94: the Groq call raises and the handler returns the
\* formatted exception
ChatGroqFails ==
    /\ mode = "groqchat" /\ pc = "generate"
    /\ groq_calls' = groq_calls + 1
    /\ \E e \in GroqErrors :
          /\ faults' = Append(faults, e)
          /\ answer' = ChatGroqError(e)
    /\ trace' = Append(trace, "get_answer_from_groq")
    /\ pc' = "done"
    /\ UNCHANGED <<mode, query, variations, vidx, all_results, unique_results,
                   search_results, context, contexts, raised, fn_arg, fn_rets,
                   server_state, printed>>

InitGroqChat ==
    /\ mode = "groqchat" /\ pc = "ask"
    /\ query \in ChatQueries
    /\ Idle
    /\ fn_arg = NoArg /\ fn_rets = <<>>

NextGroqChat ==
    \/ ChatSearch
    \/ ChatSearchFails
    \/ ChatNoResults
    \/ ChatNoContext
    \/ ChatBuildContext
    \/ ChatGroqAnswers
    \/ ChatGroqFails

SpecGroqChat == InitGroqChat /\ [][NextGroqChat]_vars

(***************************************************************************)
(* server.py: the FastAPI application                                      *)
(* Every handler is an async function without an await, so the event loop  *)
(* runs it from its first line to its response before the next handler.    *)
(***************************************************************************)
\* what the exception of a failed import or construction of RAGSystem says
InitErrors == {"import failed"}

ServerQuestions == {"", "hi"}

\* rag_system.py lines 142-154: what rag.ask(question) can return
RagAskReturns(question) ==
    IF Strip(question) = "" THEN {RagPromptAnswer}
    ELSE {RagInsufficientAnswer} \cup {Strip(text) : text \in GroqOutputs}

\* rag_system.py lines 150-154: the exceptions rag.ask(question) can raise
RagAskRaises(question) ==
    IF Strip(question) = "" THEN {} ELSE IndexErrors \cup GroqErrors

\* server.py lines 52-55 and starlette's HTTPException.__str__
InitFailure(e) == "503: RAG system initialization failed: " \o e

Response(path, status, body) == [path |-> path, status |-> status, body |-> body]

Respond(response) ==
    /\ Len(responses) < MaxRequests
    /\ responses' = Append(responses, response)

\* a variant of get_rag() without the test of line 43: every call constructs
GetRagAlwaysConstructs ==
    /\ rag_instance' = "RAGSystem"
    /\ rag_inits' = rag_inits + 1

\* server.py lines 40-56: get_rag() returns the instance, constructing it
\* when there is none
GetRagReturns ==
    /\ rag_instance' = "RAGSystem"
    /\ rag_inits' = IF rag_instance = "None" THEN rag_inits + 1 ELSE rag_inits

\* server.py lines 43-55: there is no instance and constructing it raises
GetRagRaises ==
    /\ rag_instance = "None"
    /\ rag_instance' = "None"
    /\ rag_inits' = rag_inits + 1

ServerFrame ==
    UNCHANGED <<mode, pc, query, variations, vidx, all_results, unique_results,
                search_results, context, contexts, answer, raised, groq_calls,
                fn_arg, fn_rets, trace, faults, printed>>

\* server.py lines 80-84: POST /ask answered by rag.ask
AskEndpoint ==
    /\ mode = "server"
    /\ GetRagReturns
    /\ \E question \in ServerQuestions : \E text \in RagAskReturns(question) :
          Respond(Response("/ask", 200, text))
    /\ ServerFrame

\* server.py lines 82-90: rag.ask raises
AskEndpointRagRaises ==
    /\ mode = "server"
    /\ GetRagReturns
    /\ \E question \in ServerQuestions : \E e \in RagAskRaises(question) :
          Respond(Response("/ask", 500, "[ERROR] " \o e))
    /\ ServerFrame

\* server.py lines 82, 85-90: get_rag raises HTTPException, which the
\* handler of the endpoint catches as any other exception
AskEndpointInitFails ==
    /\ mode = "server"
    /\ GetRagRaises
    /\ \E e \in InitErrors : Respond(Response("/ask", 500, "[ERROR] " \o InitFailure(e)))
    /\ ServerFrame

\* server.py lines 96-98
OptionsAsk ==
    /\ mode = "server"
    /\ Respond(Response("OPTIONS /ask", 200, ""))
    /\ UNCHANGED <<rag_instance, rag_inits>>
    /\ ServerFrame

\* a variant of lines 109-117 that warms the RAG system up before answering
HealthInitializing ==
    /\ mode = "server"
    /\ GetRagReturns
    /\ Respond(Response("/health", 200, "healthy"))
    /\ ServerFrame

\* server.py lines 103-117
Health ==
    /\ mode = "server"
    /\ Respond(Response("/health", 200, "healthy"))
    /\ UNCHANGED <<rag_instance, rag_inits>>
    /\ ServerFrame

\* server.py lines 131-137
HealthWarm ==
    /\ mode = "server"
    /\ GetRagReturns
    /\ Respond(Response("/health/warm", 200, "healthy"))
    /\ ServerFrame

\* server.py lines 131-132, 138-143
HealthWarmInitFails ==
    /\ mode = "server"
    /\ GetRagRaises
    /\ Respond(Response("/health/warm", 200, "degraded"))
    /\ ServerFrame

\* server.py lines 148-157
Root ==
    /\ mode = "server"
    /\ Respond(Response("/", 200, "FragmentsToThought RAG API"))
    /\ UNCHANGED <<rag_instance, rag_inits>>
    /\ ServerFrame

\* server.py line 38: the module has just been imported
InitServer ==
    /\ mode = "server" /\ pc = "serve" /\ query = ""
    /\ Idle
    /\ fn_arg = NoArg /\ fn_rets = <<>>

NextServer ==
    \/ AskEndpoint
    \/ AskEndpointRagRaises
    \/ AskEndpointInitFails
    \/ OptionsAsk
    \/ Health
    \/ HealthWarm
    \/ HealthWarmInitFails
    \/ Root

SpecServer == InitServer /\ [][NextServer]_vars

(***************************************************************************)
(* Properties                                                              *)
(***************************************************************************)
NoRepeats(seq) == \A i, j \in DOMAIN seq : i # j => seq[i] # seq[j]

\* the position in the list given to a direct call of the result r
InputPosition(r) == CHOOSE i \in DOMAIN fn_arg.results : fn_arg.results[i].source = r.source

SourcesOf(results) == [i \in DOMAIN results |-> results[i].source]

\* the number of places of text at which piece starts
Occurrences(text, piece) ==
    Cardinality({i \in 0..(Len(text) - Len(piece)) :
                    SubSeq(text, i + 1, i + Len(piece)) = piece})

\* C1: for every query that is not empty preprocess_query returns between 1
\* and 5 variants, the normalized query among them, none repeated, none empty.
C1_ExpandContract ==
    (mode = "preprocess_query" /\ fn_rets # <<>> /\ fn_arg.query # "") =>
        LET returned == fn_rets[1]
        IN /\ Len(returned) >= 1
           /\ Len(returned) <= MaxVariations
           /\ NormalizeQuery(fn_arg.query) \in Range(returned)
           /\ NoRepeats(returned)
           /\ "" \notin Range(returned)

\* C2: the normalized query is the first element of what preprocess_query
\* returns.
C2_OriginalFirst ==
    (mode = "preprocess_query" /\ fn_rets # <<>> /\ Len(fn_rets[1]) > 0) =>
        fn_rets[1][1] = NormalizeQuery(fn_arg.query)

\* C3: _deduplicate_results returns the results that are the first of their
\* content in the input, each once, in input order.
C3_FirstOccurrences ==
    (mode = "deduplicate_results" /\ fn_rets # <<>>) =>
        LET input == fn_arg.results
            output == fn_rets[1]
            firsts == {i \in DOMAIN input :
                          \A j \in 1..(i - 1) : input[j].content # input[i].content}
        IN /\ Len(output) = Cardinality(firsts)
           /\ \A n \in DOMAIN output :
                 /\ InputPosition(output[n]) \in firsts
                 /\ output[n] = input[InputPosition(output[n])]
                 /\ Cardinality({i \in firsts : i <= InputPosition(output[n])}) = n

\* a list with a repeated content whose two results differ, and another
\* content between them, has been deduplicated
C3_Witness ==
    /\ mode = "deduplicate_results" /\ fn_rets # <<>>
    /\ Len(fn_arg.results) = 3
    /\ fn_arg.results[1].content = fn_arg.results[3].content
    /\ fn_arg.results[1].score # fn_arg.results[3].score
    /\ fn_arg.results[2].content # fn_arg.results[1].content
    /\ SourcesOf(fn_rets[1]) = <<SourceTag(1), SourceTag(2)>>

\* C4: _deduplicate_results applied to its own return value returns that
\* value again, element for element.
C4_DedupeIdempotent ==
    (mode = "deduplicate_results" /\ Len(fn_rets) >= 2) => fn_rets[2] = fn_rets[1]

\* the first call dropped repeated results and the second call has returned
C4_Witness ==
    /\ mode = "deduplicate_results" /\ Len(fn_rets) >= 2
    /\ Len(fn_arg.results) = 3
    /\ Len(fn_rets[1]) < Len(fn_arg.results)
    /\ Len(fn_rets[2]) >= 1

\* C5: the context ask_question hands to the generator holds no content of
\* the collection twice.
C5_NoRepeatedContent ==
    (mode = "ask_question" /\ pc \in {"generate", "done"}) =>
        \A content \in KnownContents \ {""} : Occurrences(context, content) <= 1

\* two variations retrieved the same content and the context of two parts
\* holds it
C5_Witness ==
    /\ mode = "ask_question" /\ pc = "generate"
    /\ \E i, j \in DOMAIN all_results :
          /\ i < j
          /\ all_results[i].content = all_results[j].content
          /\ all_results[i].score # all_results[j].score
          /\ Occurrences(context, all_results[i].content) = 1
    /\ Len(search_results) >= 2
    /\ Contains(context, "\n\n")

\* C6: every list _rerank_results returns is non-increasing in score.
C6_NonIncreasing ==
    mode = "rerank_results" =>
        \A n \in DOMAIN fn_rets :
            \A i, j \in DOMAIN fn_rets[n] :
                i < j => fn_rets[n][i].score >= fn_rets[n][j].score

\* the boost lifted the second result of the input above the first
C6_Witness ==
    /\ mode = "rerank_results" /\ fn_rets # <<>>
    /\ Len(fn_arg.results) = 2
    /\ fn_arg.results[1].content = "db" /\ fn_arg.results[1].score = 2
    /\ fn_arg.results[2].content = "Harsha" /\ fn_arg.results[2].score = 0
    /\ SourcesOf(fn_rets[1]) = <<SourceTag(2), SourceTag(1)>>
    /\ fn_rets[1][1].score = NameBoost

\* C7: _rerank_results applied to the list it returned yields the candidates
\* in the same order.
C7_RerankSameOrder ==
    (mode = "rerank_results" /\ Len(fn_rets) >= 2) =>
        SourcesOf(fn_rets[2]) = SourcesOf(fn_rets[1])

\* C8: two candidates of equal final score are returned in the order they
\* had in the input.
C8_TiesKeepInputOrder ==
    (mode = "rerank_results" /\ fn_rets # <<>>) =>
        \A i, j \in DOMAIN fn_rets[1] :
            (i < j /\ fn_rets[1][i].score = fn_rets[1][j].score) =>
                InputPosition(fn_rets[1][i]) < InputPosition(fn_rets[1][j])

\* the number of results generate_context includes: the longest prefix whose
\* contents together are no longer than max_length
RECURSIVE ContentLength(_, _)
ContentLength(results, n) ==
    IF n = 0 THEN 0 ELSE ContentLength(results, n - 1) + Len(results[n].content)

IncludedCount(results, max_length) ==
    CHOOSE n \in 0..Len(results) :
        /\ ContentLength(results, n) <= max_length
        /\ n < Len(results) => ContentLength(results, n + 1) > max_length

\* C9: the string generate_context returns is no longer than max_length plus
\* the separators between the included items.
C9_ContextWithinBudget ==
    (mode = "generate_context" /\ fn_rets # <<>>) =>
        LET n == IncludedCount(fn_arg.results, fn_arg.max_length)
            separators == IF n > 1 THEN Len("\n\n") * (n - 1) ELSE 0
        IN Len(fn_rets[1]) <= fn_arg.max_length + separators

\* C10: with no candidate, ask_question returns the insufficient-information
\* string and never calls the provider; RAGSystem.generate does the same for
\* an empty context list.
C10_NoContextShortCircuit ==
    /\ (mode = "ask_question" /\ search_results = <<>>) =>
          /\ groq_calls = 0
          /\ pc # "generate"
          /\ pc = "done" => answer = InsufficientAnswer
    /\ (mode = "rag_ask" /\ contexts = <<>>) =>
          /\ groq_calls = 0
          /\ (pc = "done" /\ ~raised /\ query # "") => answer = RagInsufficientAnswer

\* every variation was queried, none returned a hit, and ask_question returned
C10_Witness ==
    /\ mode = "ask_question" /\ pc = "done"
    /\ Len(variations) >= 2 /\ vidx = Len(variations)
    /\ all_results = <<>>
    /\ answer = InsufficientAnswer

\* the strings ask_question can return
AskAnswers ==
    {InsufficientAnswer} \cup {Strip(text) : text \in GroqOutputs}
        \cup {GenerationError(e) : e \in GroqErrors}

\* C11: whatever index queries and generation calls fail, ask_question (and
\* the module-level generate_answer, which returns what ask_question returns)
\* ends by returning one of its strings and never by an exception.
C11_AskAlwaysReturnsString ==
    mode = "ask_question" =>
        /\ ~raised
        /\ pc = "done" => answer \in AskAnswers

\* the first index query failed, a later one found a candidate, the provider
\* failed too, and ask_question returned
C11_Witness ==
    /\ mode = "ask_question" /\ pc = "done"
    /\ Len(faults) >= 2
    /\ faults[1] \in IndexErrors
    /\ faults[Len(faults)] \in GroqErrors
    /\ groq_calls = 1
    /\ answer \in AskAnswers

\* ask_question has returned and its provider call raised: the exception
\* raised last is the provider's
ProviderRaised ==
    /\ mode = "ask_question" /\ pc = "done"
    /\ faults # <<>>
    /\ faults[Len(faults)] \in GroqErrors

\* C12: when candidates were retrieved and the provider call raises,
\* ask_question returns "Error generating response: " followed by the text of
\* the exception, which is neither the insufficient-information string nor
\* provider output, and no exception leaves it.
C12_ProviderFailureFormatted ==
    ProviderRaised =>
        LET e == faults[Len(faults)]
        IN /\ search_results # <<>>
           /\ answer = "Error generating response: " \o e
           /\ Contains(answer, "Error")
           /\ Contains(answer, e)
           /\ answer # InsufficientAnswer
           /\ answer \notin {Strip(text) : text \in GroqOutputs}
           /\ ~raised

\* two candidates were retrieved, the provider raised "rate limit", and the
\* formatted error came back
C12_Witness ==
    /\ ProviderRaised
    /\ Len(search_results) = 2
    /\ faults = <<"rate limit">>
    /\ answer = "Error generating response: rate limit"

IsPrefix(short, long) ==
    /\ Len(short) <= Len(long)
    /\ SubSeq(long, 1, Len(short)) = short

\* the number of entries of trace that are the call named
CallsOf(name) == Cardinality({i \in DOMAIN trace : trace[i] = name})

\* C13: a failed embedding or index query of one variant is caught: the step
\* keeps all_results, the loop goes on with the next variant, every step of
\* the loop keeps what was collected, and deduplication starts only after
\* every variant was tried, on everything the successful variants collected.
C13_FailureSkipsOneVariant ==
    [][(mode = "ask_question" /\ pc = "retrieve") =>
          /\ faults' # faults =>
                /\ all_results' = all_results
                /\ vidx' = vidx + 1
                /\ pc' = "retrieve"
                /\ variations' = variations
                /\ ~raised'
          /\ pc' = "retrieve" => IsPrefix(all_results, all_results')
          /\ pc' # "retrieve" =>
                /\ pc' = "rerank"
                /\ vidx = Len(variations)
                /\ CallsOf("query_points") = Len(variations)
                /\ unique_results' = DeduplicateResults(all_results)]_vars

\* of three variations the second failed; the candidates of the first and of
\* the third reached the reranked list
C13_Witness ==
    /\ mode = "ask_question" /\ pc = "searched"
    /\ Len(variations) = 3
    /\ faults = <<"index timeout">>
    /\ trace = <<"preprocess_query",
                 "query_points", "_calculate_relevance_score",
                 "query_points",
                 "query_points", "_calculate_relevance_score",
                 "_deduplicate_results", "_rerank_results">>
    /\ Len(search_results) = 2

\* the responses of the repository that ask the user for a question
PromptAnswers == {RagPromptAnswer}

\* C14: for an empty or whitespace-only question ask_question and
\* RAGSystem.ask call nothing (no expansion, embedding, index query or
\* generation) and return a prompt-for-input response.
C14_EmptyQuestionRejectedEarly ==
    (mode \in {"ask_question", "rag_ask"} /\ Strip(query) = "") =>
        /\ trace = <<>>
        /\ groq_calls = 0
        /\ pc = "done" => answer \in PromptAnswers

\* a question of the form "who is X", and its X
WhoIs == "who is "

IsWhoIs(question) ==
    /\ Len(question) > Len(WhoIs)
    /\ SubSeq(question, 1, Len(WhoIs)) = WhoIs

Subject(question) == SubSeq(question, Len(WhoIs) + 1, Len(question))

\* the word-overlap count of lines 186-188 for the user's question
WordOverlap(question, content) ==
    Cardinality(Range(Split(NormalizeQuery(question))) \cap Range(Split(Lower(content))))

\* C15: at the end of hybrid_search for a question "who is X", every returned
\* candidate whose content contains X has the exact-substring bonus in its
\* score and stands before every other returned candidate of the same
\* word-overlap count.
C15_WhoIsExactBonus ==
    (mode = "ask_question" /\ pc = "searched" /\ IsWhoIs(query)) =>
        \A i \in DOMAIN search_results :
            Contains(search_results[i].content, Subject(query)) =>
                /\ search_results[i].score >= ExactMatchBonus
                /\ \A j \in DOMAIN search_results :
                      (j # i /\ WordOverlap(query, search_results[j].content)
                                   = WordOverlap(query, search_results[i].content))
                          => i < j

\* the phase of a request a call belongs to: 1 expanding, 2 embedding and
\* retrieving, 3 deduplicating, 4 scoring, 5 assembling, 6 generating
Phase(call) ==
    CASE call = "preprocess_query" -> 1
      [] call = "query_points" -> 2
      [] call = "_deduplicate_results" -> 3
      [] call = "_calculate_relevance_score" -> 4
      [] call = "_rerank_results" -> 4
      [] call = "generate_context" -> 5
      [] call = "generate_answer" -> 6

\* C16: the calls of a request of ask_question come in the order of the
\* phases, no candidate is scored before deduplication has run, and a request
\* that has returned either generated an answer or had no candidate left and
\* returned the insufficient-information string.
C16_PhasesInOrder ==
    mode = "ask_question" =>
        /\ \A i, j \in DOMAIN trace : i < j => Phase(trace[i]) <= Phase(trace[j])
        /\ \A i \in DOMAIN trace :
              trace[i] = "_calculate_relevance_score" =>
                  \E j \in 1..(i - 1) : trace[j] = "_deduplicate_results"
        /\ pc = "done" =>
              \/ trace[Len(trace)] = "generate_answer"
              \/ search_results = <<>> /\ answer = InsufficientAnswer

\* the strings groqchat.generate_answer can return
ChatAnswers ==
    {ChatDontKnow} \cup {Strip(text) : text \in GroqOutputs}
        \cup {ChatGroqError(e) : e \in GroqErrors}

\* C17: groqchat.generate_answer never ends by an exception; it returns the
\* refusal string when the search failed, found nothing or found no content,
\* and otherwise Groq's stripped answer or the formatted Groq error.
C17_ChatAlwaysReturnsString ==
    mode = "groqchat" =>
        /\ ~raised
        /\ pc = "done" =>
              /\ answer \in ChatAnswers
              /\ (groq_calls = 0) = (answer = ChatDontKnow)
              /\ (groq_calls = 0) = (ChatContextParts(search_results) = <<>>)

\* the search returned a hit without content and a hit with content, the
\* Groq call raised, and the formatted error came back
C17_Witness ==
    /\ mode = "groqchat" /\ pc = "done"
    /\ Len(search_results) = 2
    /\ "content" \notin DOMAIN search_results[1]
    /\ Get(search_results[2], "content", "") # ""
    /\ faults = <<"provider failure">>
    /\ answer = "[ERROR] Failed to generate response from Groq: provider failure"

\* the response the step just taken has sent
Sent == responses'[Len(responses')]

\* C18: a request to /health leaves _rag_instance as it was, starts no
\* construction of the RAG system, and is answered 200 "healthy", whatever
\* the other requests did before it.
C18_HealthLeavesRagAlone ==
    [][(mode = "server" /\ Len(responses') = Len(responses) + 1 /\ Sent.path = "/health") =>
          /\ rag_instance' = rag_instance
          /\ rag_inits' = rag_inits
          /\ Sent = Response("/health", 200, "healthy")]_vars

\* the warm-up failed to construct the RAG system, and the /health request
\* after it was answered without another construction
C18_Witness ==
    /\ mode = "server"
    /\ Len(responses) = 2
    /\ responses[1] = Response("/health/warm", 200, "degraded")
    /\ responses[2] = Response("/health", 200, "healthy")
    /\ rag_instance = "None"
    /\ rag_inits = 1

\* word stands in text between whitespace or the ends of text
IsToken(word, text) ==
    \E i \in 1..(Len(text) - Len(word) + 1) :
        LET j == i + Len(word) - 1
        IN /\ SubSeq(text, i, j) = word
           /\ i = 1 \/ IsSpace(Ch(text, i - 1))
           /\ j = Len(text) \/ IsSpace(Ch(text, j + 1))

\* the distinct whitespace-separated words of text
WordsOf(text) ==
    {w \in {SubSeq(text, i, j) : i \in 1..Len(text), j \in 1..Len(text)} :
        /\ w # ""
        /\ \A n \in 1..Len(w) : ~IsSpace(Ch(w, n))
        /\ IsToken(w, text)}

\* C19: _calculate_relevance_score(q, c) is 10 if lowercase q is a substring
\* of lowercase c, plus 5 for every identity pattern that occurs in both, plus
\* 2 for every distinct word of lowercase q that is a token of lowercase c,
\* plus 2 if c has fewer than 500 characters.
C19_ScoreIsSumOfFourParts ==
    (mode = "calculate_relevance_score" /\ fn_rets # <<>>) =>
        LET q == Lower(fn_arg.query)
            c == Lower(fn_arg.content)
            substring == IF Occurrences(c, q) > 0 THEN 10 ELSE 0
            patterns == {p \in {"jakku harshavardhan", "harsha", "harshavardhan"} :
                            Occurrences(q, p) > 0 /\ Occurrences(c, p) > 0}
            overlap == {w \in WordsOf(q) : IsToken(w, c)}
            short == IF Len(fn_arg.content) < 500 THEN 2 ELSE 0
        IN fn_rets[1] = substring + 5 * Cardinality(patterns) + 2 * Cardinality(overlap) + short

\* all four parts are in the score of "harsha" against "Harsha studies CSE"
C19_Witness ==
    /\ mode = "calculate_relevance_score"
    /\ fn_arg.query = "harsha" /\ fn_arg.content = "Harsha studies CSE"
    /\ fn_rets = <<19>>

\* the final score a hit would have had it been the one kept: its score of
\* line 149 and the boost of lines 218-220
FinalScoreOf(hit) == hit.score + (IF NameMentioned[hit.content] THEN NameBoost ELSE 0)

\* C20: at the end of hybrid_search the score of a returned candidate is the
\* final score of every hit of the request with the same content, whichever
\* variation retrieved that hit, so it does not matter which of them was
\* retrieved first and kept.
C20_ScoreIndependentOfVariant ==
    (mode = "ask_question" /\ pc = "searched") =>
        \A i \in DOMAIN search_results : \A j \in DOMAIN all_results :
            all_results[j].content = search_results[i].content =>
                search_results[i].score = FinalScoreOf(all_results[j])

\* whether a content of the model mentions "jakku harshavardhan" or "harsha",
\* in any case of letters
IdentityMention ==
    [content \in KnownContents |->
        \/ Occurrences(Lower(content), "jakku harshavardhan") > 0
        \/ Occurrences(Lower(content), "harsha") > 0]

\* the score line 149 gave the hit deduplication kept for this content
BaseScore(content) ==
    all_results[CHOOSE j \in DOMAIN all_results :
                   /\ all_results[j].content = content
                   /\ \A n \in 1..(j - 1) : all_results[n].content # content].score

\* C21: at the end of hybrid_search the score of every returned candidate is
\* its base score plus 3 when its content mentions an identity term, and its
\* base score unchanged when it does not.
C21_BoostOnce ==
    (mode = "ask_question" /\ pc = "searched") =>
        \A i \in DOMAIN search_results :
            LET content == search_results[i].content
            IN search_results[i].score
                   = BaseScore(content) + (IF IdentityMention[content] THEN 3 ELSE 0)

\* hybrid_search returned the chunk that mentions both names, boosted once,
\* and a chunk that mentions none, not boosted
C21_Witness ==
    /\ mode = "ask_question" /\ pc = "searched"
    /\ \E i, j \in DOMAIN search_results :
          /\ search_results[i].content = LongContent
          /\ search_results[i].score = BaseScore(LongContent) + 3
          /\ search_results[j].content = "Ravi built a chat project"
          /\ search_results[j].score = BaseScore("Ravi built a chat project")

\* C22: the candidate built from a hit with content carries the hit's
\* content, the similarity score the index reported as its score, the hit's
\* metadata, and in one of its text fields the variation whose query
\* returned the hit.
C22_CandidateCarriesHit ==
    (mode = "build_candidate" /\ fn_rets # <<>>
        /\ Get(fn_arg.hit.payload, "content", "") # "") =>
        /\ Len(fn_rets[1]) = 1
        /\ LET candidate == fn_rets[1][1]
           IN /\ candidate.content = fn_arg.hit.payload.content
              /\ candidate.metadata = Get(fn_arg.hit.payload, "metadata", EmptyDict)
              /\ candidate.score = fn_arg.hit.score
              /\ \E f \in DOMAIN candidate \ {"score", "metadata"} :
                    candidate[f] = fn_arg.query

\* C23: for every alias key that occurs in the normalized query and every
\* synonym of that key, the pool preprocess_query builds holds the query with
\* the key replaced in place by the synonym, and the synonym alone.
C23_AliasReplacedInPlace ==
    (mode = "preprocess_query" /\ fn_rets # <<>>) =>
        LET q == NormalizeQuery(fn_arg.query)
            pool == {Strip(v) : v \in Range(VariationPool(q))}
        IN \A k \in 1..Len(name_keys) :
              Contains(q, name_keys[k]) =>
                  \A n \in 1..Len(name_variations[name_keys[k]]) :
                      LET synonym == name_variations[name_keys[k]][n]
                      IN /\ Replace(q, name_keys[k], synonym) \in pool
                         /\ synonym \in pool

\* C24: when the query is empty after normalization, preprocess_query returns
\* the list holding exactly one variation, the empty string.
C24_EmptyQueryGivesEmptyVariant ==
    (/\ mode = "preprocess_query" /\ fn_rets # <<>>
     /\ NormalizeQuery(fn_arg.query) = "") =>
        fn_rets[1] = <<"">>

\* C25: generate_context returns the parts of exactly the longest prefix of
\* the list whose contents together are no longer than max_length, each
\* content whole and joined by blank lines; nothing after the first result
\* that does not fit is included, and the string is empty when the first
\* result alone is longer than max_length.
C25_LongestFittingPrefix ==
    (mode = "generate_context" /\ fn_rets # <<>>) =>
        LET results == fn_arg.results
            n == IncludedCount(results, fn_arg.max_length)
        IN /\ fn_rets[1] = Join([i \in 1..n |-> ContextPart(results[i])], "\n\n")
           /\ \A i \in 1..n : Contains(fn_rets[1], results[i].content)
           /\ (Len(results) > 0 /\ Len(results[1].content) > fn_arg.max_length) =>
                  fn_rets[1] = ""

\* a call in which a result after the first one that does not fit would
\* itself have fit
C25_Witness ==
    /\ mode = "generate_context" /\ fn_rets # <<>>
    /\ LET results == fn_arg.results
           n == IncludedCount(results, fn_arg.max_length)
       IN /\ n >= 1
          /\ \E j \in (n + 2)..Len(results) :
                 ContentLength(results, n) + Len(results[j].content)
                     <= fn_arg.max_length

\* the contents, in the order of the index, of the hits a variation adds to
\* the raw list: none when its query raises, and none for a hit whose
\* content is empty
HitContents(variation) ==
    IF fn_arg.index[variation].raises THEN <<>>
    ELSE LET hits == fn_arg.index[variation].points
             limit == Min(fn_arg.k, Len(hits))
         IN SelectSeq([i \in 1..limit |-> Get(Points[hits[i]], "content", "")],
                      LAMBDA content : content # "")

\* C26: the raw list of hybrid_search is the concatenation, in the order of
\* the variations, of the hits of each variation in the order of the index,
\* without the hits of empty content; it is no longer than k times the number
\* of variations queried, and it is determined by the order of the variations
\* and the answers of the index.
C26_RawListIsConcatenation ==
    (mode = "hybrid_search" /\ pc # "call") =>
        /\ [i \in 1..Len(all_results) |-> all_results[i].content]
               = Flatten([v \in 1..vidx |-> HitContents(variations[v])])
        /\ Len(all_results) <= fn_arg.k * vidx

\* a finished call over several variations whose raw list is as long as the
\* bound allows and holds the hits of two variations
C26_Witness ==
    /\ mode = "hybrid_search" /\ pc = "done"
    /\ Len(variations) >= 2
    /\ Len(all_results) = fn_arg.k * Len(variations)
    /\ fn_arg.k >= 2
    /\ all_results[1].content # all_results[2].content

\* C27: an embedding computed from the content hash in place of the provider
\* is flagged by a line printed during the same call.
C27_FallbackIsFlagged ==
    (mode \in EmbedFunctions /\ fn_rets # <<>> /\ fn_rets[1].by = "md5") =>
        printed # <<>>

\* C28: a request of ask_question asks the generation provider at most once,
\* never before the search has returned, and a finished request has asked it
\* exactly once if and only if hybrid_search returned a candidate, whatever
\* the context assembled from the candidates.
C28_ProviderAskedOnceIffCandidates ==
    mode = "ask_question" =>
        /\ groq_calls <= 1
        /\ pc \notin {"done"} => groq_calls = 0
        /\ pc = "done" => (groq_calls = 1 <=> search_results # <<>>)

\* a finished request whose top candidate alone is longer than the budget:
\* the context is empty and the provider was asked once
C28_Witness ==
    /\ mode = "ask_question" /\ pc = "done"
    /\ search_results # <<>>
    /\ Len(search_results[1].content) > DefaultMaxLength
    /\ context = ""
    /\ groq_calls = 1

\* C29: over the /ask and /health/warm requests of a server process, once
\* get_rag has constructed the RAG system no later request constructs again
\* or changes the instance; a request that finds no instance starts one
\* construction, and a construction that fails leaves the instance unset.
C29_InitializedAtMostOnce ==
    [][(mode = "server" /\ Len(responses') = Len(responses) + 1) =>
          /\ rag_instance # "None" =>
                 /\ rag_instance' = rag_instance
                 /\ rag_inits' = rag_inits
          /\ (rag_instance = "None" /\ Sent.path \in {"/ask", "/health/warm"}) =>
                 /\ rag_inits' = rag_inits + 1
                 /\ rag_instance' = "None" <=>
                        Sent.body \in {"degraded"} \cup
                            {"[ERROR] " \o InitFailure(e) : e \in InitErrors}]_vars

\* the first request failed to construct the RAG system, the second one
\* constructed it, and the third was served by the same instance
C29_Witness ==
    /\ mode = "server"
    /\ Len(responses) = 3
    /\ responses[1] = Response("/health/warm", 200, "degraded")
    /\ responses[2].path = "/ask" /\ responses[2].status = 200
    /\ responses[3] = Response("/health/warm", 200, "healthy")
    /\ rag_instance = "RAGSystem"
    /\ rag_inits = 2

\* C30: when the construction of the RAG system fails during a POST /ask
\* request, the response to that request has status 503 and carries the
\* detail of the initialization failure.
C30_InitFailureAnswered503 ==
    (/\ mode = "server" /\ responses # <<>>
     /\ responses[Len(responses)].path = "/ask"
     /\ rag_instance = "None") =>
        LET response == responses[Len(responses)]
        IN /\ response.status = 503
           /\ \E e \in InitErrors :
                  Contains(response.body, "RAG system initialization failed: " \o e)

====
